---- MODULE Spec2Model ----
(***************************************************************************)
(* Model of the retrieval core of yuno-rag-pipeline:                       *)
(*   HybridRetriever._cosine_similarity  (src/retrieval/retriever.py)      *)
(*   HybridRetriever._mmr_rerank         (src/retrieval/retriever.py)      *)
(*   HybridRetriever.semantic_search     (src/retrieval/retriever.py)      *)
(*                                                                         *)
(* Numbers.  Vector components are integers counting hundredths, so the    *)
(* vector [0.99, 0.01] is <<99, 1>> and [1, 0] is <<100, 0>>.  A float     *)
(* result (a norm, a cosine, an MMR score) is a fixed-point integer:       *)
(*   - a norm counts 1/NormScale of a component unit, rounded to nearest;  *)
(*   - a cosine counts 1/One, One = Base^Digits, truncated toward zero;    *)
(*   - lambda_param counts tenths, an MMR score counts 1/(10*One).         *)
(* On vectors whose norm is an integer the cosine of the model is the      *)
(* exact rational value.                                                   *)
(***************************************************************************)
EXTENDS Integers, Sequences, FiniteSets, TLC

VARIABLES
    query_embedding,  \* _mmr_rerank argument: the query vector
    candidates,       \* _mmr_rerank argument: sequence of candidate documents
    top_k,            \* _mmr_rerank argument
    lambda_param,     \* _mmr_rerank argument, in tenths
    selected,         \* local list `selected`: pool positions (object identities)
    remaining,        \* local list `remaining`: pool positions (object identities)
    rounds,           \* iterations of the for loop started so far
    sim_calls,        \* number of _cosine_similarity invocations so far
    result,           \* the returned list (pool positions), <<>> before the return
    pc,               \* "call", "loop", "returned", "raised"
    vec1,             \* _cosine_similarity argument
    vec2,             \* _cosine_similarity argument
    cos_out,          \* value returned by _cosine_similarity (fixed point, 1/One)
    cos_pc,           \* "call", "returned", "raised"
    query,            \* semantic_search argument: the query text
    filters,          \* semantic_search argument: <<>> (None) or <<team>>
    arg_top_k,        \* semantic_search argument: <<>> (None) or <<k>>
    use_mmr,          \* semantic_search argument
    index_docs,       \* what the vector index holds for the query, best first
    search_pc,        \* "call", "embedded", "rerank", "returned", "raised"
    search_error,     \* "none", or the call that raised
    embed_calls,      \* calls of embedding_generator.generate_embedding
    index_calls,      \* calls of collection.aggregate
    index_limit,      \* the "limit" of the last $vectorSearch stage
    search_result,    \* the list semantic_search returns
    invocation,       \* number of the semantic_search invocation, from 1
    call_log,         \* external calls so far: <<invocation, "embed" | "index">>
    retriever,        \* the fields of the HybridRetriever object
    frames,           \* concurrent semantic_search calls: the locals of each
    vector_index,     \* concurrent calls: the hits of the index per query vector
    conc_log,         \* concurrent calls: the steps taken, <<call, step>>
    pdf_files,        \* process_directory: the PDF files found, in loop order
    file_pos,         \* process_directory: position of the next file of the loop
    processed_count,  \* process_directory: local processed_count
    stored,           \* the chunks inserted into the collection: <<file, chunk>>
    attempted,        \* the files process_document was called for, in order
    ingest_pc,        \* "idle", "loop", "returned"
    user_query,       \* ResponseGenerator: the query argument
    q_filters,        \* ResponseGenerator.query: the filters argument
    q_top_k,          \* ResponseGenerator.query: the top_k argument
    db_facts,         \* what the collection holds for the analytical lookups
    entry,            \* the method the caller invoked: "analytics" or "query"
    gen_pc,           \* "idle", "analytics", "query", "searching", "returned", "raised"
    gen_calls,        \* calls made by the generator so far, in order
    response          \* the dict returned, <<>> before the return

search_vars == <<query, filters, arg_top_k, use_mmr, index_docs, search_pc,
                 search_error, embed_calls, index_calls, index_limit,
                 search_result, invocation, call_log>>

vars == <<query_embedding, candidates, top_k, lambda_param, selected, remaining,
          rounds, sim_calls, result, pc, vec1, vec2, cos_out, cos_pc,
          query, filters, arg_top_k, use_mmr, index_docs, search_pc,
          search_error, embed_calls, index_calls, index_limit, search_result,
          invocation, call_log, retriever, frames, vector_index, conc_log,
          pdf_files, file_pos, processed_count, stored, attempted, ingest_pc,
          user_query, q_filters, q_top_k, db_facts, entry, gen_pc, gen_calls,
          response>>

mmr_vars == <<query_embedding, candidates, top_k, lambda_param, selected,
              remaining, rounds, sim_calls, result, pc>>

cos_vars == <<vec1, vec2, cos_out, cos_pc>>

conc_vars == <<retriever, frames, vector_index, conc_log>>

ingest_vars == <<pdf_files, file_pos, processed_count, stored, attempted, ingest_pc>>

gen_vars == <<user_query, q_filters, q_top_k, db_facts, entry, gen_pc, gen_calls,
              response>>

----------------------------------------------------------------------------
(* Bounds of the model *)

MaxPool == 4      \* longest candidate pool
MaxTopK == 4      \* largest top_k
NormScale == 150  \* resolution of a norm: 1/NormScale of a component unit
Base == 5         \* a cosine has Digits fractional digits in base Base
Digits == 6

RECURSIVE Pow(_, _)
Pow(b, e) == IF e = 0 THEN 1 ELSE b * Pow(b, e - 1)

One == Pow(Base, Digits)   \* fixed-point 1.0

Abs(x) == IF x < 0 THEN -x ELSE x
Min(a, b) == IF a <= b THEN a ELSE b

\* The vectors of the model (hundredths): dimension 2, and one vector of
\* dimension 1 standing for a candidate of the wrong dimension.  VecA, VecB,
\* VecC are the vectors A, B, C of the [1,0] scenario.
VecA == <<100, 0>>
VecB == <<99, 1>>
VecC == <<0, 100>>
VecZero == <<0, 0>>
VecNeg == <<-100, 0>>
VecP == <<60, 80>>
VecShort == <<100>>

PoolVectors == {VecA, VecB, VecC, VecShort}
QueryVectors == {VecA, VecP}
CosVectors ==
    {VecA, VecB, VecC, VecZero, VecNeg, VecP, VecShort,
     <<80, 60>>, <<-60, 80>>, <<0, -100>>, <<28, 96>>, <<3, 4>>}
AllVectors == PoolVectors \cup QueryVectors \cup CosVectors

\* lambda_param in tenths: 0.0, 0.5, 0.7, 1.0 and, out of range, 1.5
LambdaValues == {0, 5, 7, 10, 15}
TopKValues == -1 .. MaxTopK

----------------------------------------------------------------------------
(* _cosine_similarity *)

RECURSIVE ISqrtIn(_, _, _)
ISqrtIn(n, lo, hi) ==
    IF lo = hi THEN lo
    ELSE LET mid == (lo + hi + 1) \div 2
         IN  IF mid * mid <= n THEN ISqrtIn(n, mid, hi) ELSE ISqrtIn(n, lo, mid - 1)

\* square root rounded to the nearest integer
RoundSqrt(n) ==
    LET r == ISqrtIn(n, 0, 46340)
    IN  IF n - r * r > r THEN r + 1 ELSE r

RECURSIVE DotFrom(_, _, _)
DotFrom(a, b, i) ==
    IF i > Len(a) THEN 0 ELSE a[i] * b[i] + DotFrom(a, b, i + 1)

\* np.dot(vec1, vec2) for two vectors of equal length
Dot(a, b) == DotFrom(a, b, 1)

\* faulty variant: the largest component instead of the Euclidean norm
NormMax(v) ==
    LET m == CHOOSE x \in {Abs(v[i]) : i \in DOMAIN v} \cup {0} :
                 \A i \in DOMAIN v : Abs(v[i]) <= x
    IN  m * NormScale

\* np.linalg.norm(v), in 1/NormScale
Norm(v) == RoundSqrt(Dot(v, v) * NormScale * NormScale)

RECURSIVE FracDiv(_, _, _)
FracDiv(r, y, k) ==
    IF k = 0 THEN 0
    ELSE LET x == r * Base
         IN  (x \div y) * Pow(Base, k - 1) + FracDiv(x % y, y, k - 1)

\* float division x / y for x >= 0, y > 0, in 1/One
FDiv(x, y) == (x \div y) * One + FracDiv(x % y, y, Digits)

\* faulty variant: the zero-norm test comes before the product, so a zero
\* vector of another length is answered
CosRaisesUnlessZero(v1, v2) ==
    Len(v1) # Len(v2) /\ Dot(v1, v1) # 0 /\ Dot(v2, v2) # 0

\* np.dot raises ValueError when the shapes differ
CosRaises(v1, v2) == Len(v1) # Len(v2)

\* faulty variant: only norm1 is tested; the quotient by a zero norm2 is not
\* a number, shown as 2 * One
CosineUnguarded(v1, v2) ==
    LET dot_product == Dot(v1, v2)
        norm1 == Norm(v1)
        norm2 == Norm(v2)
    IN  IF norm1 = 0 THEN 0
        ELSE IF norm2 = 0 THEN 2 * One
        ELSE LET q == FDiv(Abs(dot_product) * NormScale * NormScale, norm1 * norm2)
             IN  IF dot_product < 0 THEN -q ELSE q

\* faulty variant: the product is divided by norm1 * norm1
CosineByFirstNorm(v1, v2) ==
    LET dot_product == Dot(v1, v2)
        norm1 == Norm(v1)
        norm2 == Norm(v2)
    IN  IF norm1 = 0 \/ norm2 = 0 THEN 0
        ELSE LET q == FDiv(Abs(dot_product) * NormScale * NormScale, norm1 * norm1)
             IN  IF dot_product < 0 THEN -q ELSE q

\* the value _cosine_similarity(vec1, vec2) returns when it does not raise
_cosine_similarity(v1, v2) ==
    LET dot_product == Dot(v1, v2)
        norm1 == Norm(v1)
        norm2 == Norm(v2)
    IN  IF norm1 = 0 \/ norm2 = 0 THEN 0
        ELSE LET q == FDiv(Abs(dot_product) * NormScale * NormScale, norm1 * norm2)
             IN  IF dot_product < 0 THEN -q ELSE q

\* every pair of the model's vectors, computed once
SimTable ==
    [p \in {q \in AllVectors \X AllVectors : ~CosRaises(q[1], q[2])}
        |-> _cosine_similarity(p[1], p[2])]

Sim(v1, v2) == SimTable[<<v1, v2>>]

----------------------------------------------------------------------------
(* _mmr_rerank *)

\* A candidate document: the dict the caller passes; _mmr_rerank reads only
\* its "embedding".  Two positions of a pool may hold equal documents.
Candidates == [embedding : PoolVectors]

Pools == UNION {[1 .. n -> Candidates] : n \in 0 .. MaxPool}

Embedding(p) == candidates[p].embedding

\* faulty variant: the loop body runs at least once
LoopCountAtLeastOne(k, n) == IF Min(k, n) < 1 THEN 1 ELSE Min(k, n)

\* len(range(min(top_k, len(candidates))))
LoopCount(k, n) == IF Min(k, n) < 0 THEN 0 ELSE Min(k, n)

\* the _cosine_similarity calls of one round, in call order: for each doc of
\* `remaining` the relevance call, then one call per selected document
DocCalls(d, sel) ==
    <<<<query_embedding, Embedding(d)>>>>
        \o [j \in 1 .. Len(sel) |-> <<Embedding(d), Embedding(sel[j])>>]

RECURSIVE RoundCalls(_, _)
RoundCalls(rem, sel) ==
    IF rem = <<>> THEN <<>>
    ELSE DocCalls(Head(rem), sel) \o RoundCalls(Tail(rem), sel)

\* index of the first call that raises, 0 when none does
FirstRaise(calls) ==
    IF \E i \in 1 .. Len(calls) : CosRaises(calls[i][1], calls[i][2])
    THEN CHOOSE i \in 1 .. Len(calls) :
            /\ CosRaises(calls[i][1], calls[i][2])
            /\ \A j \in 1 .. i - 1 : ~CosRaises(calls[j][1], calls[j][2])
    ELSE 0

RECURSIVE MaxScan(_, _, _)
MaxScan(xs, i, best) ==
    IF i > Len(xs) THEN best
    ELSE MaxScan(xs, i + 1, IF xs[i] > best THEN xs[i] ELSE best)

RECURSIVE MinScan(_, _, _)
MinScan(xs, i, best) ==
    IF i > Len(xs) THEN best
    ELSE MinScan(xs, i + 1, IF xs[i] < best THEN xs[i] ELSE best)

\* faulty variant: min instead of max over the selected documents
DiversityPenaltyMin(d, sel) ==
    IF sel # <<>>
    THEN LET sims == [j \in 1 .. Len(sel) |-> Sim(Embedding(d), Embedding(sel[j]))]
         IN  MinScan(sims, 2, sims[1])
    ELSE 0

\* diversity_penalty: max similarity to the already selected documents
DiversityPenalty(d, sel) ==
    IF sel # <<>>
    THEN LET sims == [j \in 1 .. Len(sel) |-> Sim(Embedding(d), Embedding(sel[j]))]
         IN  MaxScan(sims, 2, sims[1])
    ELSE 0

\* faulty variant: the two weights exchanged
MmrFormulaSwapped(relevance, diversity_penalty, lam) ==
    (10 - lam) * relevance - lam * diversity_penalty

\* faulty variant: the relevance term dropped
MmrFormulaNoRelevance(relevance, diversity_penalty, lam) ==
    - (10 - lam) * diversity_penalty

\* mmr_score = lambda_param * relevance - (1 - lambda_param) * diversity_penalty
MmrFormula(relevance, diversity_penalty, lam) ==
    lam * relevance - (10 - lam) * diversity_penalty

\* the mmr_score of document d of `remaining`
MmrScore(d, sel) ==
    MmrFormula(Sim(query_embedding, Embedding(d)), DiversityPenalty(d, sel),
               lambda_param)

RECURSIVE ArgMaxScan(_, _, _)
ArgMaxScan(xs, i, best) ==
    IF i > Len(xs) THEN best
    ELSE ArgMaxScan(xs, i + 1, IF xs[i] > xs[best] THEN i ELSE best)

RECURSIVE ArgMaxLastScan(_, _, _)
ArgMaxLastScan(xs, i, best) ==
    IF i > Len(xs) THEN best
    ELSE ArgMaxLastScan(xs, i + 1, IF xs[i] >= xs[best] THEN i ELSE best)

\* faulty variant: the last item with the largest key
ArgMaxLast(xs) == ArgMaxLastScan(xs, 2, 1)

\* max(mmr_scores, key=...): the index of the first item with the largest key
ArgMax(xs) == ArgMaxScan(xs, 2, 1)

RemoveAt(xs, i) == SubSeq(xs, 1, i - 1) \o SubSeq(xs, i + 1, Len(xs))

\* faulty variant: drops every item equal to best_doc
RemoveAllEqual(rem, d) == SelectSeq(rem, LAMBDA x : candidates[x] # candidates[d])

\* remaining.remove(best_doc): drops the first item equal (==) to best_doc
RemoveFirstEqual(rem, d) ==
    RemoveAt(rem, CHOOSE i \in 1 .. Len(rem) :
                     /\ candidates[rem[i]] = candidates[d]
                     /\ \A j \in 1 .. i - 1 : candidates[rem[j]] # candidates[d])

\* _mmr_rerank as a function of its arguments: <<"raised">> when a similarity
\* call raises, else <<"returned", the selected pool positions>>
PenaltyIn(pool, d, sel) ==
    IF sel # <<>>
    THEN LET sims == [j \in 1 .. Len(sel) |->
                         Sim(pool[d].embedding, pool[sel[j]].embedding)]
         IN  MaxScan(sims, 2, sims[1])
    ELSE 0

RaisesIn(qe, pool, rem, sel) ==
    \E i \in 1 .. Len(rem) :
        \/ CosRaises(qe, pool[rem[i]].embedding)
        \/ \E j \in 1 .. Len(sel) :
              CosRaises(pool[rem[i]].embedding, pool[sel[j]].embedding)

RECURSIVE RerankLoop(_, _, _, _, _, _)
RerankLoop(qe, pool, lam, n, sel, rem) ==
    IF n = 0 \/ rem = <<>> THEN <<"returned", sel>>
    ELSE IF RaisesIn(qe, pool, rem, sel) THEN <<"raised">>
    ELSE LET mmr_scores == [i \in 1 .. Len(rem) |->
                 MmrFormula(Sim(qe, pool[rem[i]].embedding),
                            PenaltyIn(pool, rem[i], sel), lam)]
             best_doc == rem[ArgMax(mmr_scores)]
             first == CHOOSE i \in 1 .. Len(rem) :
                          /\ pool[rem[i]] = pool[best_doc]
                          /\ \A j \in 1 .. i - 1 : pool[rem[j]] # pool[best_doc]
         IN  RerankLoop(qe, pool, lam, n - 1, Append(sel, best_doc),
                        RemoveAt(rem, first))

RerankOf(qe, pool, k, lam) ==
    IF pool = <<>> THEN <<"returned", <<>>>>
    ELSE RerankLoop(qe, pool, lam, LoopCount(k, Len(pool)), <<>>,
                    [i \in 1 .. Len(pool) |-> i])

\* if not candidates: return []   else   selected = []; remaining = candidates.copy()
Enter ==
    /\ pc = "call"
    /\ IF candidates = <<>>
       THEN /\ pc' = "returned"
            /\ result' = <<>>
            /\ UNCHANGED <<selected, remaining>>
       ELSE /\ pc' = "loop"
            /\ selected' = <<>>
            /\ remaining' = [i \in 1 .. Len(candidates) |-> i]
            /\ UNCHANGED result
    /\ UNCHANGED <<query_embedding, candidates, top_k, lambda_param, rounds, sim_calls>>
    /\ UNCHANGED cos_vars
    /\ UNCHANGED search_vars
    /\ UNCHANGED conc_vars
    /\ UNCHANGED ingest_vars
    /\ UNCHANGED gen_vars

\* faulty variant: among the documents with the largest score any one is
\* picked
RoundAnyMax ==
    /\ pc = "loop"
    /\ rounds < LoopCount(top_k, Len(candidates))
    /\ remaining # <<>>
    /\ LET calls == RoundCalls(remaining, selected)
           raise == FirstRaise(calls)
       IN  IF raise # 0
           THEN /\ pc' = "raised"
                /\ sim_calls' = sim_calls + raise
                /\ UNCHANGED <<selected, remaining, rounds>>
           ELSE LET mmr_scores == [i \in 1 .. Len(remaining) |->
                                       MmrScore(remaining[i], selected)]
                IN  \E b \in 1 .. Len(remaining) :
                       /\ \A j \in 1 .. Len(remaining) : mmr_scores[j] <= mmr_scores[b]
                       /\ selected' = Append(selected, remaining[b])
                       /\ remaining' = RemoveAt(remaining, b)
                       /\ rounds' = rounds + 1
                       /\ sim_calls' = sim_calls + Len(calls)
                       /\ pc' = "loop"
    /\ UNCHANGED <<query_embedding, candidates, top_k, lambda_param, result>>
    /\ UNCHANGED cos_vars
    /\ UNCHANGED search_vars
    /\ UNCHANGED conc_vars
    /\ UNCHANGED ingest_vars
    /\ UNCHANGED gen_vars

\* faulty variant: the embedding of the picked document is removed in place
RoundPopsEmbedding ==
    /\ pc = "loop"
    /\ rounds < LoopCount(top_k, Len(candidates))
    /\ remaining # <<>>
    /\ LET calls == RoundCalls(remaining, selected)
           raise == FirstRaise(calls)
       IN  IF raise # 0
           THEN /\ pc' = "raised"
                /\ sim_calls' = sim_calls + raise
                /\ UNCHANGED <<selected, remaining, rounds, candidates>>
           ELSE LET mmr_scores == [i \in 1 .. Len(remaining) |->
                                       MmrScore(remaining[i], selected)]
                    best_doc == remaining[ArgMax(mmr_scores)]
                IN  /\ selected' = Append(selected, best_doc)
                    /\ remaining' = RemoveFirstEqual(remaining, best_doc)
                    /\ rounds' = rounds + 1
                    /\ sim_calls' = sim_calls + Len(calls)
                    /\ candidates' = [candidates EXCEPT ![best_doc].embedding = <<>>]
                    /\ pc' = "loop"
    /\ UNCHANGED <<query_embedding, top_k, lambda_param, result>>
    /\ UNCHANGED cos_vars
    /\ UNCHANGED search_vars
    /\ UNCHANGED conc_vars
    /\ UNCHANGED ingest_vars
    /\ UNCHANGED gen_vars

\* one iteration of  for _ in range(min(top_k, len(candidates)))
Round ==
    /\ pc = "loop"
    /\ rounds < LoopCount(top_k, Len(candidates))
    /\ remaining # <<>>
    /\ LET calls == RoundCalls(remaining, selected)
           raise == FirstRaise(calls)
       IN  IF raise # 0
           THEN /\ pc' = "raised"
                /\ sim_calls' = sim_calls + raise
                /\ UNCHANGED <<selected, remaining, rounds>>
           ELSE LET mmr_scores == [i \in 1 .. Len(remaining) |->
                                       MmrScore(remaining[i], selected)]
                    best_doc == remaining[ArgMax(mmr_scores)]
                IN  /\ selected' = Append(selected, best_doc)
                    /\ remaining' = RemoveFirstEqual(remaining, best_doc)
                    /\ rounds' = rounds + 1
                    /\ sim_calls' = sim_calls + Len(calls)
                    /\ pc' = "loop"
    /\ UNCHANGED <<query_embedding, candidates, top_k, lambda_param, result>>
    /\ UNCHANGED cos_vars
    /\ UNCHANGED search_vars
    /\ UNCHANGED conc_vars
    /\ UNCHANGED ingest_vars
    /\ UNCHANGED gen_vars

\* the loop ends (range exhausted, or `if not remaining: break`): return selected
Return ==
    /\ pc = "loop"
    /\ rounds >= LoopCount(top_k, Len(candidates)) \/ remaining = <<>>
    /\ result' = selected
    /\ pc' = "returned"
    /\ UNCHANGED <<query_embedding, candidates, top_k, lambda_param, selected,
                   remaining, rounds, sim_calls>>
    /\ UNCHANGED cos_vars
    /\ UNCHANGED search_vars
    /\ UNCHANGED conc_vars
    /\ UNCHANGED ingest_vars
    /\ UNCHANGED gen_vars

CosIdle ==
    /\ vec1 = <<>>
    /\ vec2 = <<>>
    /\ cos_out = 0
    /\ cos_pc = "idle"

MmrIdle ==
    /\ query_embedding = <<>>
    /\ candidates = <<>>
    /\ top_k = 0
    /\ lambda_param = 0
    /\ selected = <<>>
    /\ remaining = <<>>
    /\ rounds = 0
    /\ sim_calls = 0
    /\ result = <<>>
    /\ pc = "idle"

SearchIdle ==
    /\ query = ""
    /\ filters = <<>>
    /\ arg_top_k = <<>>
    /\ use_mmr = FALSE
    /\ index_docs = <<>>
    /\ search_pc = "idle"
    /\ search_error = "none"
    /\ embed_calls = 0
    /\ index_calls = 0
    /\ index_limit = 0
    /\ search_result = <<>>
    /\ invocation = 0
    /\ call_log = <<>>

\* self.client, self.db, self.collection, self.embedding_generator as set by
\* __init__
RetrieverFields ==
    [client |-> "MongoClient", db |-> "database", collection |-> "collection",
     embedding_generator |-> "EmbeddingGenerator"]

ConcIdle ==
    /\ retriever = RetrieverFields
    /\ frames = <<>>
    /\ vector_index = <<>>
    /\ conc_log = <<>>

IngestIdle ==
    /\ pdf_files = <<>>
    /\ file_pos = 0
    /\ processed_count = 0
    /\ stored = <<>>
    /\ attempted = <<>>
    /\ ingest_pc = "idle"

GenIdle ==
    /\ user_query = ""
    /\ q_filters = <<>>
    /\ q_top_k = <<>>
    /\ db_facts = <<>>
    /\ entry = "none"
    /\ gen_pc = "idle"
    /\ gen_calls = <<>>
    /\ response = <<>>

\* a call _mmr_rerank(query_embedding, candidates, top_k, lambda_param)
Init ==
    /\ query_embedding \in QueryVectors
    /\ candidates \in Pools
    /\ top_k \in TopKValues
    /\ lambda_param \in LambdaValues
    /\ selected = <<>>
    /\ remaining = <<>>
    /\ rounds = 0
    /\ sim_calls = 0
    /\ result = <<>>
    /\ pc = "call"
    /\ CosIdle
    /\ SearchIdle
    /\ ConcIdle
    /\ IngestIdle
    /\ GenIdle

Next == Enter \/ Round \/ Return

Spec == Init /\ [][Next]_vars

----------------------------------------------------------------------------
(* a direct call _cosine_similarity(vec1, vec2) *)

CosCall ==
    /\ cos_pc = "call"
    /\ IF CosRaises(vec1, vec2)
       THEN cos_pc' = "raised" /\ UNCHANGED cos_out
       ELSE cos_pc' = "returned" /\ cos_out' = _cosine_similarity(vec1, vec2)
    /\ UNCHANGED <<vec1, vec2>>
    /\ UNCHANGED mmr_vars
    /\ UNCHANGED search_vars
    /\ UNCHANGED conc_vars
    /\ UNCHANGED ingest_vars
    /\ UNCHANGED gen_vars

InitCos ==
    /\ vec1 \in CosVectors
    /\ vec2 \in CosVectors
    /\ cos_out = 0
    /\ cos_pc = "call"
    /\ MmrIdle
    /\ SearchIdle
    /\ ConcIdle
    /\ IngestIdle
    /\ GenIdle

NextCos == CosCall

SpecCos == InitCos /\ [][NextCos]_vars

----------------------------------------------------------------------------
(* semantic_search *)

MaxDocs == 2          \* most documents the index holds for a query
MaxSearchTopK == 2    \* largest top_k a caller of semantic_search passes

TOP_K == 5            \* config.TOP_K, the default of top_k

\* a stored document without an "embedding": doc.get("embedding") is None,
\* which no similarity can be computed with
NoEmbedding == <<>>

DocEmbeddings == {VecA, VecC, VecShort, NoEmbedding}
Teams == {"Core", "Integrations"}
Queries == {"q1", "q2"}
SearchLambdas == {0, 7}
SearchTopKArgs == {<<>>} \cup {<<k>> : k \in 0 .. MaxSearchTopK}
SearchFilters == {<<>>, <<"Core">>}

\* the vector the embedding provider returns for a query text
EmbeddingOf(q) == IF q = "q1" THEN VecA ELSE VecP

\* vectorSearchScore of the hit of rank i, in hundredths
ScoreOfRank(i) == 100 - 5 * i

\* the documents of the index as $vectorSearch and $project yield them, best
\* first: hit i has ObjectId i
IndexContents ==
    UNION {
        {[i \in 1 .. n |->
            [_id |-> i, content |-> <<"text", i>>, metadata |-> [team |-> ts[i]],
             embedding |-> es[i], score |-> ScoreOfRank(i)]] :
         es \in [1 .. n -> DocEmbeddings], ts \in [1 .. n -> Teams]} :
        n \in 0 .. MaxDocs}

\* a larger collection: more hits than any fetch_limit below TOP_K keeps; of
\* the first 3 * MaxSearchTopK hits only the second is of team Core, the hits
\* after them all are
LongIndex ==
    [i \in 1 .. 4 * MaxSearchTopK |->
        [_id |-> i, content |-> <<"text", i>>,
         metadata |-> [team |-> IF i = 2 \/ i > 3 * MaxSearchTopK
                                THEN "Core" ELSE "Integrations"],
         embedding |-> IF i % 2 = 1 THEN VecA ELSE VecC,
         score |-> ScoreOfRank(i)]]

SearchIndexes == IndexContents \cup {LongIndex}

\* str(doc["_id"])
StrOf(id) == <<"str", id>>

\* if top_k is None: top_k = TOP_K
ResolveTopK(arg) == IF arg = <<>> THEN TOP_K ELSE arg[1]

\* faulty variant: over-fetch by 2
FetchLimitDouble(k, mmr) == IF mmr THEN k * 2 ELSE k

\* fetch_limit = top_k * 3 if use_mmr else top_k
FetchLimit(k, mmr) == IF mmr THEN k * 3 ELSE k

\* faulty variant: the $match stage runs before the limit of $vectorSearch
AggregateMatchFirst(docs, limit, flt) ==
    LET matching == IF flt # <<>>
                    THEN SelectSeq(docs, LAMBDA d : d.metadata.team = flt[1])
                    ELSE docs
        n == IF limit < 0 THEN 0 ELSE Min(limit, Len(matching))
    IN  SubSeq(matching, 1, n)

\* the pipeline run by the index: $vectorSearch keeps the `limit` best hits,
\* then the $match stage (when filters is given) keeps those of the team
Aggregate(docs, limit, flt) ==
    LET n == IF limit < 0 THEN 0 ELSE Min(limit, Len(docs))
        hits == SubSeq(docs, 1, n)
    IN  IF flt # <<>>
        THEN SelectSeq(hits, LAMBDA d : d.metadata.team = flt[1])
        ELSE hits

\* the candidate dict built from a document of the cursor
CandidateOf(doc) ==
    [content |-> doc.content, metadata |-> doc.metadata,
     embedding |-> doc.embedding, similarity |-> doc.score, _id |-> StrOf(doc._id)]

BuildCandidates(docs) == [i \in 1 .. Len(docs) |-> CandidateOf(docs[i])]

\* faulty variant: re-rank every non-empty pool
UseRerankIgnoresFlag(mmr, pool) == Len(pool) > 0

\* faulty variant: re-rank whenever use_mmr is set
UseRerankAlways(mmr, pool) == mmr

\* if use_mmr and len(candidates) > 0
UseRerank(mmr, pool) == mmr /\ Len(pool) > 0

\* xs[:k]
Slice(xs, k) ==
    IF k >= 0 THEN SubSeq(xs, 1, Min(k, Len(xs)))
    ELSE SubSeq(xs, 1, IF Len(xs) + k < 0 THEN 0 ELSE Len(xs) + k)

\* faulty variant: the embedding is left in the result
KeepEmbedding(c) == c

\* result.pop("embedding", None)
PopEmbedding(c) ==
    [content |-> c.content, metadata |-> c.metadata,
     similarity |-> c.similarity, _id |-> c._id]

StripAll(cs) == [i \in 1 .. Len(cs) |-> PopEmbedding(cs[i])]

\* faulty variant: a provider error is swallowed and an empty list returned
SearchEmbedSwallows ==
    /\ search_pc = "call"
    /\ top_k' = ResolveTopK(arg_top_k)
    /\ embed_calls' = embed_calls + 1
    /\ call_log' = Append(call_log, <<invocation, "embed">>)
    /\ \/ /\ search_pc' = "returned"
          /\ search_error' = "embedding"
          /\ UNCHANGED query_embedding
       \/ /\ search_pc' = "embedded"
          /\ query_embedding' = EmbeddingOf(query)
          /\ UNCHANGED search_error
    /\ UNCHANGED <<candidates, lambda_param, selected, remaining, rounds,
                   sim_calls, result, pc>>
    /\ UNCHANGED <<query, filters, arg_top_k, use_mmr, index_docs, index_calls,
                   index_limit, search_result, invocation>>
    /\ UNCHANGED cos_vars
    /\ UNCHANGED conc_vars
    /\ UNCHANGED ingest_vars
    /\ UNCHANGED gen_vars

\* faulty variant: from the second invocation on the embedding of the query
\* is taken from a cache and the provider is not called
SearchEmbedCached ==
    /\ search_pc = "call"
    /\ top_k' = ResolveTopK(arg_top_k)
    /\ IF \E i \in 1 .. Len(call_log) :
             call_log[i][1] < invocation /\ call_log[i][2] = "embed"
       THEN /\ search_pc' = "embedded"
            /\ query_embedding' = EmbeddingOf(query)
            /\ UNCHANGED <<embed_calls, call_log, search_error>>
       ELSE /\ embed_calls' = embed_calls + 1
            /\ call_log' = Append(call_log, <<invocation, "embed">>)
            /\ \/ /\ search_pc' = "raised"
                  /\ search_error' = "embedding"
                  /\ UNCHANGED query_embedding
               \/ /\ search_pc' = "embedded"
                  /\ query_embedding' = EmbeddingOf(query)
                  /\ UNCHANGED search_error
    /\ UNCHANGED <<candidates, lambda_param, selected, remaining, rounds,
                   sim_calls, result, pc>>
    /\ UNCHANGED <<query, filters, arg_top_k, use_mmr, index_docs, index_calls,
                   index_limit, search_result, invocation>>
    /\ UNCHANGED cos_vars
    /\ UNCHANGED conc_vars
    /\ UNCHANGED ingest_vars
    /\ UNCHANGED gen_vars

\* top_k default, then query_embedding = generate_embedding(query); an
\* exception of the provider is not caught
SearchEmbed ==
    /\ search_pc = "call"
    /\ top_k' = ResolveTopK(arg_top_k)
    /\ embed_calls' = embed_calls + 1
    /\ call_log' = Append(call_log, <<invocation, "embed">>)
    /\ \/ /\ search_pc' = "raised"
          /\ search_error' = "embedding"
          /\ UNCHANGED query_embedding
       \/ /\ search_pc' = "embedded"
          /\ query_embedding' = EmbeddingOf(query)
          /\ UNCHANGED search_error
    /\ UNCHANGED <<candidates, lambda_param, selected, remaining, rounds,
                   sim_calls, result, pc>>
    /\ UNCHANGED <<query, filters, arg_top_k, use_mmr, index_docs, index_calls,
                   index_limit, search_result, invocation>>
    /\ UNCHANGED cos_vars
    /\ UNCHANGED conc_vars
    /\ UNCHANGED ingest_vars
    /\ UNCHANGED gen_vars

\* faulty variant: an error of the index query is caught and the empty list
\* returned
SearchFetchSwallows ==
    /\ search_pc = "embedded"
    /\ index_limit' = FetchLimit(top_k, use_mmr)
    /\ index_calls' = index_calls + 1
    /\ call_log' = Append(call_log, <<invocation, "index">>)
    /\ \/ /\ search_pc' = "returned"
          /\ search_error' = "index"
          /\ UNCHANGED <<candidates, pc, search_result>>
       \/ LET pool == BuildCandidates(
                          Aggregate(index_docs, FetchLimit(top_k, use_mmr), filters))
          IN  /\ candidates' = pool
              /\ UNCHANGED search_error
              /\ IF UseRerank(use_mmr, pool)
                 THEN /\ pc' = "call"
                      /\ search_pc' = "rerank"
                      /\ UNCHANGED search_result
                 ELSE /\ search_result' = StripAll(Slice(pool, top_k))
                      /\ search_pc' = "returned"
                      /\ UNCHANGED pc
    /\ UNCHANGED <<query_embedding, top_k, lambda_param, selected, remaining,
                   rounds, sim_calls, result>>
    /\ UNCHANGED <<query, filters, arg_top_k, use_mmr, index_docs, embed_calls,
                   invocation>>
    /\ UNCHANGED cos_vars
    /\ UNCHANGED conc_vars
    /\ UNCHANGED ingest_vars
    /\ UNCHANGED gen_vars

\* fetch_limit, the pipeline, collection.aggregate (which may raise), the
\* candidate list; then either the call of _mmr_rerank or, without it,
\* candidates[:top_k], the removal of the embeddings and the return
SearchFetch ==
    /\ search_pc = "embedded"
    /\ index_limit' = FetchLimit(top_k, use_mmr)
    /\ index_calls' = index_calls + 1
    /\ call_log' = Append(call_log, <<invocation, "index">>)
    /\ \/ /\ search_pc' = "raised"
          /\ search_error' = "index"
          /\ UNCHANGED <<candidates, pc, search_result>>
       \/ LET pool == BuildCandidates(
                          Aggregate(index_docs, FetchLimit(top_k, use_mmr), filters))
          IN  /\ candidates' = pool
              /\ UNCHANGED search_error
              /\ IF UseRerank(use_mmr, pool)
                 THEN /\ pc' = "call"
                      /\ search_pc' = "rerank"
                      /\ UNCHANGED search_result
                 ELSE /\ search_result' = StripAll(Slice(pool, top_k))
                      /\ search_pc' = "returned"
                      /\ UNCHANGED pc
    /\ UNCHANGED <<query_embedding, top_k, lambda_param, selected, remaining,
                   rounds, sim_calls, result>>
    /\ UNCHANGED <<query, filters, arg_top_k, use_mmr, index_docs, embed_calls,
                   invocation>>
    /\ UNCHANGED cos_vars
    /\ UNCHANGED conc_vars
    /\ UNCHANGED ingest_vars
    /\ UNCHANGED gen_vars

\* _mmr_rerank returned: the embeddings are removed and the list returned
SearchFinish ==
    /\ search_pc = "rerank"
    /\ pc = "returned"
    /\ search_result' = StripAll([i \in 1 .. Len(result) |-> candidates[result[i]]])
    /\ search_pc' = "returned"
    /\ UNCHANGED <<query, filters, arg_top_k, use_mmr, index_docs, search_error,
                   embed_calls, index_calls, index_limit, invocation, call_log>>
    /\ UNCHANGED mmr_vars
    /\ UNCHANGED cos_vars
    /\ UNCHANGED conc_vars
    /\ UNCHANGED ingest_vars
    /\ UNCHANGED gen_vars

\* faulty variant: an error of the re-ranking is caught and what was selected
\* so far is returned
SearchRerankRaisedPartial ==
    /\ search_pc = "rerank"
    /\ pc = "raised"
    /\ search_result' = StripAll([i \in 1 .. Len(selected) |-> candidates[selected[i]]])
    /\ search_pc' = "returned"
    /\ search_error' = "similarity"
    /\ UNCHANGED <<query, filters, arg_top_k, use_mmr, index_docs,
                   embed_calls, index_calls, index_limit, invocation, call_log>>
    /\ UNCHANGED mmr_vars
    /\ UNCHANGED cos_vars
    /\ UNCHANGED conc_vars
    /\ UNCHANGED ingest_vars
    /\ UNCHANGED gen_vars

\* _mmr_rerank raised: semantic_search has no handler, the error leaves it
SearchRerankRaised ==
    /\ search_pc = "rerank"
    /\ pc = "raised"
    /\ search_pc' = "raised"
    /\ search_error' = "similarity"
    /\ UNCHANGED <<query, filters, arg_top_k, use_mmr, index_docs,
                   embed_calls, index_calls, index_limit, search_result,
                   invocation, call_log>>
    /\ UNCHANGED mmr_vars
    /\ UNCHANGED cos_vars
    /\ UNCHANGED conc_vars
    /\ UNCHANGED ingest_vars
    /\ UNCHANGED gen_vars

\* a call semantic_search(query, filters, top_k, use_mmr, lambda_param)
InitSearch ==
    /\ query \in Queries
    /\ filters \in SearchFilters
    /\ arg_top_k \in SearchTopKArgs
    /\ use_mmr \in BOOLEAN
    /\ lambda_param \in SearchLambdas
    /\ index_docs \in SearchIndexes
    /\ search_pc = "call"
    /\ search_error = "none"
    /\ embed_calls = 0
    /\ index_calls = 0
    /\ index_limit = 0
    /\ search_result = <<>>
    /\ invocation = 1
    /\ call_log = <<>>
    /\ query_embedding = <<>>
    /\ candidates = <<>>
    /\ top_k = 0
    /\ selected = <<>>
    /\ remaining = <<>>
    /\ rounds = 0
    /\ sim_calls = 0
    /\ result = <<>>
    /\ pc = "idle"
    /\ CosIdle
    /\ ConcIdle
    /\ IngestIdle
    /\ GenIdle

NextSearch ==
    \/ SearchEmbed
    \/ SearchFetch
    \/ Enter
    \/ Round
    \/ Return
    \/ SearchFinish
    \/ SearchRerankRaised

SpecSearch == InitSearch /\ [][NextSearch]_vars

----------------------------------------------------------------------------
(* semantic_search invoked again with the same arguments *)

MaxInvocations == 2   \* invocations of semantic_search by the same caller

\* the caller invokes semantic_search again with identical arguments, against
\* the same index contents; every local of the method is fresh
SearchAgain ==
    /\ search_pc \in {"returned", "raised"}
    /\ invocation < MaxInvocations
    /\ invocation' = invocation + 1
    /\ search_pc' = "call"
    /\ search_error' = "none"
    /\ embed_calls' = 0
    /\ index_calls' = 0
    /\ index_limit' = 0
    /\ search_result' = <<>>
    /\ query_embedding' = <<>>
    /\ candidates' = <<>>
    /\ top_k' = 0
    /\ selected' = <<>>
    /\ remaining' = <<>>
    /\ rounds' = 0
    /\ sim_calls' = 0
    /\ result' = <<>>
    /\ pc' = "idle"
    /\ UNCHANGED <<query, filters, arg_top_k, use_mmr, index_docs, lambda_param,
                   call_log>>
    /\ UNCHANGED cos_vars
    /\ UNCHANGED conc_vars
    /\ UNCHANGED ingest_vars
    /\ UNCHANGED gen_vars

InitRepeat ==
    /\ InitSearch
    /\ filters = <<>>
    /\ lambda_param = 7
    /\ arg_top_k \in {<<>>, <<1>>}

NextRepeat ==
    \/ SearchEmbed
    \/ SearchFetch
    \/ Enter
    \/ Round
    \/ Return
    \/ SearchFinish
    \/ SearchRerankRaised
    \/ SearchAgain

SpecRepeat == InitRepeat /\ [][NextRepeat]_vars

----------------------------------------------------------------------------
(* two concurrent calls of semantic_search on one HybridRetriever *)

Calls == {1, 2}

\* what semantic_search does after the embedding: <<"raised">> when the
\* re-ranking raises, else <<"returned", the list returned>>
SearchOutcome(qe, k, flt, mmr, lam, docs) ==
    LET pool == BuildCandidates(Aggregate(docs, FetchLimit(k, mmr), flt))
    IN  IF UseRerank(mmr, pool)
        THEN LET r == RerankOf(qe, pool, k, lam)
             IN  IF r[1] = "raised" THEN <<"raised">>
                 ELSE <<"returned",
                        StripAll([i \in 1 .. Len(r[2]) |-> pool[r[2][i]]])>>
        ELSE <<"returned", StripAll(Slice(pool, k))>>

\* the hits the index can hold for a query vector
ConcHits ==
    {docs \in IndexContents :
        /\ Len(docs) = MaxDocs
        /\ \A i \in 1 .. Len(docs) :
              docs[i].metadata.team = "Core" /\ docs[i].embedding # NoEmbedding}

\* an index over the documents `docs`: the query vector of "q1" ranks them in
\* the order given, any other query vector in the opposite order
RankingsOf(docs) ==
    [qv \in {EmbeddingOf(q) : q \in Queries} |->
        IF qv = EmbeddingOf("q1") THEN docs
        ELSE [i \in 1 .. Len(docs) |->
                 [docs[Len(docs) + 1 - i] EXCEPT !.score = ScoreOfRank(i)]]]

ConcArgs ==
    [query : Queries, filters : {<<>>}, arg_top_k : {<<>>, <<1>>},
     use_mmr : BOOLEAN, lambda_param : {7}]

\* the locals of a call that has just been entered
NewFrame(a) ==
    [args |-> a, pc |-> "call", top_k |-> 0, query_embedding |-> <<>>,
     results |-> <<>>, error |-> "none"]

\* faulty variant: the embedding is kept where every call reads it
StoreEmbeddingShared(frs, i, v) ==
    [c \in DOMAIN frs |-> [frs[c] EXCEPT !.query_embedding = v]]

\* query_embedding = ...: a local of the call
StoreEmbedding(frs, i, v) == [frs EXCEPT ![i].query_embedding = v]

\* call i: top_k default and the embedding of the query
ConcEmbed(i) ==
    /\ frames[i].pc = "call"
    /\ conc_log' = Append(conc_log, <<i, "embed">>)
    /\ \/ frames' = [frames EXCEPT ![i].top_k = ResolveTopK(frames[i].args.arg_top_k),
                                   ![i].pc = "raised",
                                   ![i].error = "embedding"]
       \/ frames' = [StoreEmbedding(frames, i, EmbeddingOf(frames[i].args.query))
                        EXCEPT ![i].top_k = ResolveTopK(frames[i].args.arg_top_k),
                               ![i].pc = "embedded"]
    /\ UNCHANGED <<retriever, vector_index>>
    /\ UNCHANGED <<mmr_vars, cos_vars, search_vars>>
    /\ UNCHANGED ingest_vars
    /\ UNCHANGED gen_vars

\* call i: the index query with its query_embedding, then the rest of the
\* method, which works on locals of the call only
ConcFetch(i) ==
    /\ frames[i].pc = "embedded"
    /\ conc_log' = Append(conc_log, <<i, "fetch">>)
    /\ \/ frames' = [frames EXCEPT ![i].pc = "raised", ![i].error = "index"]
       \/ LET f == frames[i]
              out == SearchOutcome(f.query_embedding, f.top_k, f.args.filters,
                                   f.args.use_mmr, f.args.lambda_param,
                                   vector_index[f.query_embedding])
          IN  IF out[1] = "raised"
              THEN frames' = [frames EXCEPT ![i].pc = "raised",
                                            ![i].error = "similarity"]
              ELSE frames' = [frames EXCEPT ![i].pc = "returned",
                                            ![i].results = out[2]]
    /\ UNCHANGED <<retriever, vector_index>>
    /\ UNCHANGED <<mmr_vars, cos_vars, search_vars>>
    /\ UNCHANGED ingest_vars
    /\ UNCHANGED gen_vars

InitConc ==
    /\ retriever = RetrieverFields
    /\ frames \in [Calls -> {NewFrame(a) : a \in ConcArgs}]
    /\ vector_index \in {RankingsOf(docs) : docs \in ConcHits}
    /\ conc_log = <<>>
    /\ MmrIdle
    /\ CosIdle
    /\ SearchIdle
    /\ IngestIdle
    /\ GenIdle

NextConc ==
    \/ \E i \in Calls : ConcEmbed(i)
    \/ \E i \in Calls : ConcFetch(i)

SpecConc == InitConc /\ [][NextConc]_vars

----------------------------------------------------------------------------
(* DocumentProcessor.process_directory  (src/ingestion/document_processor.py) *)

MaxFiles == 2     \* most PDF files rglob finds
MaxChunks == 2    \* most chunks the text splitter makes of a file

\* A PDF file as process_document meets it: the number of chunks of its text,
\* whether process_document raises for it, and the chunks it has inserted by
\* then: none when loading, metadata extraction or splitting raises, fewer
\* than all when the embedding or the insertion of a chunk raises
PdfFiles ==
    {f \in [chunks : 0 .. MaxChunks, raises : BOOLEAN, inserted : 0 .. MaxChunks] :
        IF f.raises THEN f.inserted = 0 \/ f.inserted < f.chunks
        ELSE f.inserted = f.chunks}

Directories == UNION {[1 .. n -> PdfFiles] : n \in 0 .. MaxFiles}

\* process_document returns for this file
Completes(f) == ~f.raises

\* the chunks process_document inserts for file number i before it returns or
\* raises: insert_one is called chunk by chunk and nothing is undone
InsertedBy(i, f) == [c \in 1 .. f.inserted |-> <<i, c>>]

\* faulty variant: every file of the loop is counted
CountAlways(count, f) == count + 1

\* try: process_document(...); processed_count += 1   except Exception: print
CountAfter(count, f) == IF Completes(f) THEN count + 1 ELSE count

\* one iteration of  for pdf_path in pdf_files
ProcessNext ==
    /\ ingest_pc = "loop"
    /\ file_pos <= Len(pdf_files)
    /\ attempted' = Append(attempted, file_pos)
    /\ stored' = stored \o InsertedBy(file_pos, pdf_files[file_pos])
    /\ processed_count' = CountAfter(processed_count, pdf_files[file_pos])
    /\ file_pos' = file_pos + 1
    /\ UNCHANGED <<pdf_files, ingest_pc>>
    /\ UNCHANGED <<mmr_vars, cos_vars, search_vars, conc_vars>>
    /\ UNCHANGED gen_vars

\* the loop is over: return processed_count
ProcessReturn ==
    /\ ingest_pc = "loop"
    /\ file_pos > Len(pdf_files)
    /\ ingest_pc' = "returned"
    /\ UNCHANGED <<pdf_files, file_pos, processed_count, stored, attempted>>
    /\ UNCHANGED <<mmr_vars, cos_vars, search_vars, conc_vars>>
    /\ UNCHANGED gen_vars

\* a call process_directory(directory_path) on an empty collection
InitIngest ==
    /\ pdf_files \in Directories
    /\ file_pos = 1
    /\ processed_count = 0
    /\ stored = <<>>
    /\ attempted = <<>>
    /\ ingest_pc = "loop"
    /\ MmrIdle
    /\ CosIdle
    /\ SearchIdle
    /\ ConcIdle
    /\ GenIdle

NextIngest == ProcessNext \/ ProcessReturn

SpecIngest == InitIngest /\ [][NextIngest]_vars

----------------------------------------------------------------------------
(* ResponseGenerator.query and query_with_analytics  (src/generation/generator.py) *)

DefaultLambda == 7    \* semantic_search(..., lambda_param=0.7), in tenths

\* The query texts of the model, each with unicodedata.normalize('NFD',
\* query.lower()) stripped of its combining marks, and with query.upper()
QueryTexts ==
    {[text |-> "¿Cuántos tickets hay de Integraciones?",
      lower_nfd_stripped |-> "¿cuantos tickets hay de integraciones?",
      upper |-> "¿CUÁNTOS TICKETS HAY DE INTEGRACIONES?"],
     [text |-> "Cuantos tickets hay",
      lower_nfd_stripped |-> "cuantos tickets hay",
      upper |-> "CUANTOS TICKETS HAY"],
     [text |-> "contar documentos por equipo",
      lower_nfd_stripped |-> "contar documentos por equipo",
      upper |-> "CONTAR DOCUMENTOS POR EQUIPO"],
     [text |-> "¿Qué proveedor tiene más tickets?",
      lower_nfd_stripped |-> "¿que proveedor tiene mas tickets?",
      upper |-> "¿QUÉ PROVEEDOR TIENE MÁS TICKETS?"],
     [text |-> "más tickets AP-541",
      lower_nfd_stripped |-> "mas tickets ap-541",
      upper |-> "MÁS TICKETS AP-541"],
     [text |-> "ticket AP-541",
      lower_nfd_stripped |-> "ticket ap-541",
      upper |-> "TICKET AP-541"],
     [text |-> "estado del ticket ap-541",
      lower_nfd_stripped |-> "estado del ticket ap-541",
      upper |-> "ESTADO DEL TICKET AP-541"],
     [text |-> "ticket TST sin numero",
      lower_nfd_stripped |-> "ticket tst sin numero",
      upper |-> "TICKET TST SIN NUMERO"],
     [text |-> "ticket AP- pendiente",
      lower_nfd_stripped |-> "ticket ap- pendiente",
      upper |-> "TICKET AP- PENDIENTE"],
     [text |-> "How to configure SafetyPay?",
      lower_nfd_stripped |-> "how to configure safetypay?",
      upper |-> "HOW TO CONFIGURE SAFETYPAY?"],
     [text |-> "AP-541",
      lower_nfd_stripped |-> "ap-541",
      upper |-> "AP-541"],
     [text |-> "¿cuántos tickets tiene DEM-7?",
      lower_nfd_stripped |-> "¿cuantos tickets tiene dem-7?",
      upper |-> "¿CUÁNTOS TICKETS TIENE DEM-7?"],
     [text |-> "ticket DEM-7 y AP-541",
      lower_nfd_stripped |-> "ticket dem-7 y ap-541",
      upper |-> "TICKET DEM-7 Y AP-541"],
     [text |-> "q1",
      lower_nfd_stripped |-> "q1",
      upper |-> "Q1"]}

\* <<s, t>>: the string s occurs in the string t (Python `s in t`), for the
\* keywords and the normalized texts, and for the prefixes and the upper texts
Substrings ==
    {<<"AP-", "AP-541">>,
     <<"AP-", "ESTADO DEL TICKET AP-541">>,
     <<"AP-", "MÁS TICKETS AP-541">>,
     <<"AP-", "TICKET AP- PENDIENTE">>,
     <<"AP-", "TICKET AP-541">>,
     <<"AP-", "TICKET DEM-7 Y AP-541">>,
     <<"DEM-", "TICKET DEM-7 Y AP-541">>,
     <<"DEM-", "¿CUÁNTOS TICKETS TIENE DEM-7?">>,
     <<"TST", "TICKET TST SIN NUMERO">>,
     <<"contar", "contar documentos por equipo">>,
     <<"cuantos", "cuantos tickets hay">>,
     <<"cuantos", "¿cuantos tickets hay de integraciones?">>,
     <<"cuantos", "¿cuantos tickets tiene dem-7?">>,
     <<"integraciones", "¿cuantos tickets hay de integraciones?">>,
     <<"mas tickets", "mas tickets ap-541">>,
     <<"mas tickets", "¿que proveedor tiene mas tickets?">>,
     <<"ticket", "cuantos tickets hay">>,
     <<"ticket", "estado del ticket ap-541">>,
     <<"ticket", "mas tickets ap-541">>,
     <<"ticket", "ticket ap- pendiente">>,
     <<"ticket", "ticket ap-541">>,
     <<"ticket", "ticket dem-7 y ap-541">>,
     <<"ticket", "ticket tst sin numero">>,
     <<"ticket", "¿cuantos tickets hay de integraciones?">>,
     <<"ticket", "¿cuantos tickets tiene dem-7?">>,
     <<"ticket", "¿que proveedor tiene mas tickets?">>}

\* <<t, id>>: the first pattern of _extract_ticket_id that matches the upper
\* text t matches id
RegexMatches ==
    {<<"AP-541", "AP-541">>,
     <<"ESTADO DEL TICKET AP-541", "AP-541">>,
     <<"MÁS TICKETS AP-541", "AP-541">>,
     <<"TICKET AP-541", "AP-541">>,
     <<"TICKET DEM-7 Y AP-541", "AP-541">>,
     <<"¿CUÁNTOS TICKETS TIENE DEM-7?", "DEM-7">>}

TextOf(q) == CHOOSE r \in QueryTexts : r.text = q

query_normalized(q) == TextOf(q).lower_nfd_stripped

Upper(q) == TextOf(q).upper

In(s, t) == <<s, t>> \in Substrings

TicketPrefixes == {"AP-", "CORECM-", "PFU-", "TST", "DEM-"}

\* _extract_ticket_id(text): <<>> for None
_extract_ticket_id(q) ==
    IF \E m \in RegexMatches : m[1] = Upper(q)
    THEN <<(CHOOSE m \in RegexMatches : m[1] = Upper(q))[2]>>
    ELSE <<>>

\* faulty variant: the ticket pattern is tested before the counting branches
RouteTicketFirst(q) ==
    LET n == query_normalized(q)
    IN  IF In("ticket", n) /\ \E p \in TicketPrefixes : In(p, Upper(q))
        THEN "ticket"
        ELSE IF In("cuantos", n) /\ In("integraciones", n) THEN "integrations"
        ELSE IF In("cuantos", n) \/ In("contar", n) THEN "counts"
        ELSE IF In("mas tickets", n) THEN "most_tickets"
        ELSE "semantic"

\* the if / elif chain of query_with_analytics
Route(q) ==
    LET n == query_normalized(q)
    IN  IF In("cuantos", n) /\ In("integraciones", n) THEN "integrations"
        ELSE IF In("cuantos", n) \/ In("contar", n) THEN "counts"
        ELSE IF In("mas tickets", n) THEN "most_tickets"
        ELSE IF In("ticket", n) /\ \E p \in TicketPrefixes : In(p, Upper(q))
        THEN "ticket"
        ELSE "semantic"

\* _extract_sources: one entry per distinct metadata source_id, first
\* occurrences in order; documents without a source_id give none
_extract_sources(docs) ==
    LET HasId(i) == "source_id" \in DOMAIN docs[i].metadata
        First(i) == /\ HasId(i)
                    /\ \A j \in 1 .. i - 1 :
                          HasId(j) => docs[j].metadata.source_id
                                         # docs[i].metadata.source_id
        RECURSIVE From(_)
        From(i) == IF i > Len(docs) THEN <<>>
                   ELSE IF First(i)
                        THEN <<docs[i].metadata.source_id>> \o From(i + 1)
                        ELSE From(i + 1)
    IN  From(1)

\* the answer of query() when nothing was retrieved
NoDocumentsResponse ==
    [answer |-> "I couldn't find relevant documents to answer your question.",
     sources |-> <<>>, retrieved_docs |-> 0]

\* faulty variant: the generation step is run for every retrieval
GenerateAlways(context_docs) == TRUE

\* if not context_docs: return {...}   else generate_response
Generates(context_docs) == context_docs # <<>>

\* query_with_analytics up to its return, or to its call of self.query
Analytics ==
    /\ gen_pc = "analytics"
    /\ LET branch == Route(user_query)
           ticket_id == _extract_ticket_id(user_query)
       IN  \/ /\ branch = "integrations"
              /\ gen_calls' = <<"count_by_team">>
              /\ response' = [answer |-> "integrations_count",
                              query_type |-> "analytical"]
              /\ gen_pc' = "returned"
           \/ /\ branch = "counts"
              /\ gen_calls' = <<"count_by_team", "count_by_provider">>
              /\ response' = [answer |-> "statistics", query_type |-> "analytical"]
              /\ gen_pc' = "returned"
           \/ /\ branch = "most_tickets"
              /\ gen_calls' = <<"count_by_provider">>
              /\ response' = [answer |-> IF db_facts.provider_counts_empty
                                         THEN "no_provider_tickets"
                                         ELSE "provider_ranking",
                              query_type |-> "analytical"]
              /\ gen_pc' = "returned"
           \/ /\ branch = "ticket"
              /\ ticket_id # <<>>
              /\ IF db_facts.ticket_found
                 THEN /\ gen_calls' = <<"get_ticket_with_provider_docs",
                                        "generate_response">>
                      /\ \/ /\ response' = [answer |-> "generated",
                                            ticket_id |-> ticket_id[1]]
                            /\ gen_pc' = "returned"
                         \/ /\ gen_pc' = "raised"
                            /\ UNCHANGED response
                 ELSE /\ gen_calls' = <<"get_ticket_with_provider_docs">>
                      /\ response' = [answer |-> "ticket_not_found",
                                      query_type |-> "ticket_lookup"]
                      /\ gen_pc' = "returned"
           \/ /\ branch = "semantic" \/ (branch = "ticket" /\ ticket_id = <<>>)
              /\ gen_pc' = "query"
              /\ UNCHANGED <<gen_calls, response>>
    /\ UNCHANGED <<user_query, q_filters, q_top_k, db_facts, entry>>
    /\ UNCHANGED <<mmr_vars, cos_vars, search_vars, conc_vars, ingest_vars>>

\* query(): the call self.retriever.semantic_search(query, filters, top_k),
\* use_mmr and lambda_param at their defaults
QueryCall ==
    /\ gen_pc = "query"
    /\ gen_calls' = Append(gen_calls, "semantic_search")
    /\ gen_pc' = "searching"
    /\ query' = user_query
    /\ filters' = q_filters
    /\ arg_top_k' = q_top_k
    /\ use_mmr' = TRUE
    /\ lambda_param' = DefaultLambda
    /\ search_pc' = "call"
    /\ invocation' = invocation + 1
    /\ UNCHANGED <<index_docs, search_error, embed_calls, index_calls, index_limit,
                   search_result, call_log>>
    /\ UNCHANGED <<query_embedding, candidates, top_k, selected, remaining,
                   rounds, sim_calls, result, pc>>
    /\ UNCHANGED <<user_query, q_filters, q_top_k, db_facts, entry, response>>
    /\ UNCHANGED <<cos_vars, conc_vars, ingest_vars>>

\* query(): semantic_search returned context_docs
QueryAnswer ==
    /\ gen_pc = "searching"
    /\ search_pc = "returned"
    /\ IF Generates(search_result)
       THEN /\ gen_calls' = Append(gen_calls, "generate_response")
            /\ \/ /\ response' = [answer |-> "generated",
                                  sources |-> _extract_sources(search_result),
                                  retrieved_docs |-> Len(search_result)]
                  /\ gen_pc' = "returned"
               \/ /\ gen_pc' = "raised"
                  /\ UNCHANGED response
       ELSE /\ response' = NoDocumentsResponse
            /\ gen_pc' = "returned"
            /\ UNCHANGED gen_calls
    /\ UNCHANGED <<user_query, q_filters, q_top_k, db_facts, entry>>
    /\ UNCHANGED <<mmr_vars, cos_vars, search_vars, conc_vars, ingest_vars>>

\* query(): semantic_search raised; query has no handler
QueryRaised ==
    /\ gen_pc = "searching"
    /\ search_pc = "raised"
    /\ gen_pc' = "raised"
    /\ UNCHANGED <<user_query, q_filters, q_top_k, db_facts, entry, gen_calls,
                   response>>
    /\ UNCHANGED <<mmr_vars, cos_vars, search_vars, conc_vars, ingest_vars>>

\* the collections the generator is run against
GenIndexes ==
    {docs \in IndexContents :
        \A i \in 1 .. Len(docs) : docs[i].embedding \in {VecA, VecShort}}

\* a call query_with_analytics(query) or query(query, filters, top_k)
InitGen ==
    /\ entry \in {"analytics", "query"}
    /\ gen_pc = entry
    /\ IF entry = "analytics"
       THEN /\ user_query \in {r.text : r \in QueryTexts}
            /\ q_filters = <<>>
            /\ q_top_k = <<>>
            /\ db_facts \in [provider_counts_empty : BOOLEAN, ticket_found : BOOLEAN]
       ELSE /\ user_query \in {"q1", "How to configure SafetyPay?"}
            /\ q_filters \in SearchFilters
            /\ q_top_k \in SearchTopKArgs
            /\ db_facts = [provider_counts_empty |-> FALSE, ticket_found |-> FALSE]
    /\ gen_calls = <<>>
    /\ response = <<>>
    /\ index_docs \in GenIndexes
    /\ query = ""
    /\ filters = <<>>
    /\ arg_top_k = <<>>
    /\ use_mmr = FALSE
    /\ search_pc = "idle"
    /\ search_error = "none"
    /\ embed_calls = 0
    /\ index_calls = 0
    /\ index_limit = 0
    /\ search_result = <<>>
    /\ invocation = 0
    /\ call_log = <<>>
    /\ MmrIdle
    /\ CosIdle
    /\ ConcIdle
    /\ IngestIdle

NextGen ==
    \/ Analytics
    \/ QueryCall
    \/ SearchEmbed
    \/ SearchFetch
    \/ Enter
    \/ Round
    \/ Return
    \/ SearchFinish
    \/ SearchRerankRaised
    \/ QueryAnswer
    \/ QueryRaised

SpecGen == InitGen /\ [][NextGen]_vars

----------------------------------------------------------------------------
(* Properties of _mmr_rerank and _cosine_similarity *)

Range(xs) == {xs[i] : i \in DOMAIN xs}

ValidLambda == lambda_param \in 0 .. 10

Relevance(p) == Sim(query_embedding, Embedding(p))

\* P(d): 0 when nothing is selected, else the largest cos(d, s), s selected
PenaltyOver(d, S) ==
    IF S = {} THEN 0
    ELSE CHOOSE m \in {Sim(Embedding(d), Embedding(s)) : s \in S} :
            \A s \in S : Sim(Embedding(d), Embedding(s)) <= m

\* score(d) = lambda * cos(query, d) - (1 - lambda) * P(d)
ScoreOver(d, S) ==
    lambda_param * Relevance(d) - (10 - lambda_param) * PenaltyOver(d, S)

\* a round of the loop has just appended a candidate to `selected`
Picked == pc = "loop" /\ Len(selected') = Len(selected) + 1

IndexIn(xs, x) == CHOOSE i \in DOMAIN xs : xs[i] = x

\* C1: in every round the candidate appended to `selected` is one of
\* `remaining` and no candidate of `remaining` has a larger MMR score
\* lambda * cos(query, d) - (1 - lambda) * P(d), P taken over `selected`
\* as it was at the start of the round.
C1_PickHasMaxScore ==
    [][Picked =>
        LET d == selected'[Len(selected')]
        IN  /\ d \in Range(remaining)
            /\ \A r \in Range(remaining) :
                  ScoreOver(r, Range(selected)) <= ScoreOver(d, Range(selected))]_vars

\* the third pick was made against two selected candidates it resembles
\* differently, and beat a more relevant candidate
C1_Witness ==
    /\ Len(selected) = 3
    /\ Len(remaining) = 1
    /\ Sim(Embedding(selected[3]), Embedding(selected[1]))
          # Sim(Embedding(selected[3]), Embedding(selected[2]))
    /\ ScoreOver(remaining[1], {selected[1], selected[2]})
          < ScoreOver(selected[3], {selected[1], selected[2]})
    /\ Relevance(remaining[1]) > Relevance(selected[3])

\* C2: for a non-empty pool, top_k >= 0 and lambda in [0,1] the returned
\* sequence has exactly min(top_k, len(candidates)) elements.
C2_ResultLength ==
    (pc = "returned" /\ candidates # <<>> /\ top_k >= 0 /\ ValidLambda)
        => Len(result) = Min(top_k, Len(candidates))

C2_Witness ==
    /\ pc = "returned"
    /\ ValidLambda
    /\ Len(candidates) = 4
    /\ top_k = 3
    /\ Len(result) = 3
    /\ candidates[1] = candidates[2]

Scenario ==
    /\ query_embedding = VecA
    /\ candidates = <<[embedding |-> VecA], [embedding |-> VecB], [embedding |-> VecC]>>
    /\ top_k = 2
    /\ lambda_param = 7

\* C3 as stated: the scenario query [1,0], A=[1,0], B=[0.99,0.01], C=[0,1],
\* top_k=2, lambda=0.7 returns [A, C].
C3_ScenarioReturnsAC == (Scenario /\ pc = "returned") => result = <<1, 3>>

\* C3 (amended): the scenario returns [A, B]: in the second round B scores
\* 0.7*cos(q,B) - 0.3*cos(B,A), about 0.4, and C scores 0.
C3_ScenarioReturnsAB == (Scenario /\ pc = "returned") => result = <<1, 2>>

C3_Witness == Scenario /\ pc = "returned" /\ Len(result) = 2

MaxRelevance(p) == \A x \in DOMAIN candidates : Relevance(x) <= Relevance(p)

\* C4 as stated: for every lambda in [0,1], lambda = 0 included, the first
\* candidate selected has the maximum cosine similarity to the query.
C4_FirstPickMaxRelevance ==
    (ValidLambda /\ selected # <<>>) => MaxRelevance(selected[1])

\* C4 (amended): for lambda in (0,1] the first candidate selected has the
\* maximum cosine similarity to the query; at lambda = 0 every first-round
\* score is 0 and the first candidate of the pool is selected.
C4_FirstPick ==
    /\ (lambda_param \in 1 .. 10 /\ selected # <<>>) => MaxRelevance(selected[1])
    /\ (lambda_param = 0 /\ selected # <<>>) => selected[1] = 1

C4_Witness ==
    /\ lambda_param \in 1 .. 10
    /\ selected # <<>>
    /\ selected[1] # 1
    /\ Relevance(1) < Relevance(selected[1])

\* C5: every element of the result is a position of the pool, no position
\* occurs twice (also when two candidates are equal by value), and with
\* top_k >= len(candidates) the result is a permutation of the whole pool.
C5_ResultFromPoolNoDuplicates ==
    pc = "returned" =>
        /\ \A i \in DOMAIN result : result[i] \in DOMAIN candidates
        /\ \A i, j \in DOMAIN result : i # j => result[i] # result[j]
        /\ top_k >= Len(candidates) => Range(result) = DOMAIN candidates

C5_Witness ==
    /\ pc = "returned"
    /\ top_k >= Len(candidates)
    /\ Len(result) = 3
    /\ candidates[2] = candidates[3]
    /\ candidates[1] # candidates[2]

\* rank of position p when the pool is ordered by descending similarity to
\* the query, equal similarities in input order
RankByRelevance(p) ==
    1 + Cardinality({x \in DOMAIN candidates :
                        \/ Relevance(x) > Relevance(p)
                        \/ Relevance(x) = Relevance(p) /\ x < p})

\* C6: at lambda = 1.0 the result is the pool sorted by descending cosine
\* similarity to the query, equal similarities in input order, cut to top_k.
C6_LambdaOneIsRelevanceOrder ==
    (pc = "returned" /\ lambda_param = 10 /\ top_k >= 0) =>
        /\ Len(result) = Min(top_k, Len(candidates))
        /\ \A i \in DOMAIN result : RankByRelevance(result[i]) = i

C6_Witness ==
    /\ pc = "returned"
    /\ lambda_param = 10
    /\ Len(result) = 2
    /\ Len(candidates) = 3
    /\ result[1] = 2
    /\ result[2] = 1
    /\ Relevance(1) = Relevance(3)

\* C7: when several remaining candidates share the maximal score of a round,
\* the one earliest in `remaining` is selected: every candidate before it in
\* `remaining` scores strictly less; the others stay in `remaining` in their
\* order, which is the input order.
C7_TieGoesToEarliest ==
    [][Picked =>
        LET d == selected'[Len(selected')]
        IN  /\ \A j \in 1 .. IndexIn(remaining, d) - 1 :
                  ScoreOver(remaining[j], Range(selected))
                      < ScoreOver(d, Range(selected))
            /\ remaining' = SelectSeq(remaining, LAMBDA x : x # d)
            /\ \A i, j \in DOMAIN remaining' : i < j => remaining'[i] < remaining'[j]]_vars

C7_Witness ==
    /\ pc = "loop"
    /\ lambda_param \in 1 .. 10
    /\ Len(selected) = 2
    /\ remaining # <<>>
    /\ selected[2] < remaining[1]
    /\ candidates[selected[2]] # candidates[remaining[1]]
    /\ ScoreOver(selected[2], {selected[1]}) = ScoreOver(remaining[1], {selected[1]})

\* C8: with top_k = 0 or an empty pool the result is empty and no similarity
\* has been computed.
C8_EmptyWithoutSimilarity ==
    (pc = "returned" /\ (top_k = 0 \/ candidates = <<>>))
        => (result = <<>> /\ sim_calls = 0)

C8_Witness ==
    /\ pc = "returned"
    /\ top_k = 0
    /\ Len(candidates) = 2
    /\ result = <<>>

\* C9 as stated: every value _cosine_similarity returns lies in [0,1].
C9_CosineInUnitInterval ==
    cos_pc = "returned" => (0 <= cos_out /\ cos_out <= One)

\* C10 as stated: _mmr_rerank never returns a list when top_k is negative or
\* lambda_param is outside [0,1].
C10_InvalidArgumentsNeverReturn ==
    ~(pc = "returned" /\ (top_k < 0 \/ ~ValidLambda))

----------------------------------------------------------------------------
(* Properties of semantic_search *)

\* top_k after the default: the caller's value, or TOP_K when none is passed
CallerTopK == IF arg_top_k = <<>> THEN TOP_K ELSE arg_top_k[1]

\* the documents the index returned for the query that was issued
Fetched == search_error = "none" /\ index_calls = 1

\* the fields of a returned document are those of the index document with its
\* _id (the _id in its string form, the score as similarity)
FromIndex(r) ==
    \E j \in 1 .. Len(index_docs) :
        /\ r._id = StrOf(index_docs[j]._id)
        /\ r.content = index_docs[j].content
        /\ r.metadata = index_docs[j].metadata
        /\ r.similarity = index_docs[j].score

\* C11: when the embedding provider raises, semantic_search ends with that
\* error, has returned no list, and collection.aggregate has not been called.
C11_EmbeddingErrorPropagates ==
    search_error = "embedding"
        => (search_pc = "raised" /\ search_result = <<>> /\ index_calls = 0
            /\ embed_calls = 1 /\ pc = "idle")

C11_Witness ==
    /\ search_error = "embedding"
    /\ search_pc = "raised"
    /\ index_docs # <<>>
    /\ index_calls = 0

\* C12: when the index returns no candidate, semantic_search returns the
\* empty list without error, with use_mmr set or not, and _mmr_rerank is not
\* entered.
C12_EmptyPoolReturnsEmpty ==
    (Fetched /\ candidates = <<>>)
        => (search_pc = "returned" /\ search_result = <<>> /\ pc = "idle"
            /\ sim_calls = 0)

C12_Witness ==
    /\ Fetched
    /\ use_mmr
    /\ top_k >= 1
    /\ index_docs # <<>>
    /\ candidates = <<>>
    /\ search_pc = "returned"

\* C13: the limit given to the index is 3 * top_k with use_mmr and top_k
\* without it, top_k being the caller's value or TOP_K when none is passed.
C13_FetchLimit ==
    index_calls >= 1
        => index_limit = (IF use_mmr THEN 3 * CallerTopK ELSE CallerTopK)

C13_Witness ==
    /\ index_calls = 1
    /\ use_mmr
    /\ arg_top_k = <<>>
    /\ index_limit = 3 * TOP_K

\* C14: a returned document has no embedding field, with and without
\* re-ranking, and its content, metadata, similarity and _id are those of the
\* index document it was built from.
C14_NoEmbeddingReturned ==
    \A i \in 1 .. Len(search_result) :
        /\ DOMAIN search_result[i] = {"content", "metadata", "similarity", "_id"}
        /\ FromIndex(search_result[i])

C14_Witness ==
    /\ search_pc = "returned"
    /\ use_mmr
    /\ Len(search_result) = 2
    /\ \A i \in 1 .. Len(candidates) : Len(candidates[i].embedding) = 2

\* C15: without use_mmr semantic_search returns the first
\* min(top_k, pool size) candidates in the order of the index, and
\* _mmr_rerank is never called.
C15_NoMmrKeepsIndexOrder ==
    /\ ~use_mmr => (pc = "idle" /\ sim_calls = 0)
    /\ (~use_mmr /\ search_pc = "returned")
          => /\ Len(search_result) = Min(top_k, Len(candidates))
             /\ \A i \in 1 .. Len(search_result) :
                   /\ search_result[i]._id = candidates[i]._id
                   /\ search_result[i].content = candidates[i].content
                   /\ search_result[i].metadata = candidates[i].metadata
                   /\ search_result[i].similarity = candidates[i].similarity

C15_Witness ==
    /\ ~use_mmr
    /\ search_pc = "returned"
    /\ Len(index_docs) = 2
    /\ top_k = 1
    /\ Len(candidates) = 1
    /\ Len(search_result) = 1
    /\ search_result[1]._id = StrOf(1)

\* a candidate of the pool whose embedding is missing or has another
\* dimension than the query
Offending(i) == Len(candidates[i].embedding) # Len(query_embedding)

\* C16: when a similarity computation of _mmr_rerank raises, semantic_search
\* ends with the error: no list is returned, be it partial or with the
\* offending candidate skipped.
C16_RerankErrorPropagates ==
    /\ (search_pc = "rerank" /\ pc = "raised") => search_result = <<>>
    /\ search_error = "similarity" => (search_pc = "raised" /\ search_result = <<>>)
    /\ (use_mmr /\ Fetched /\ \E i \in 1 .. Len(candidates) : Offending(i))
          => search_pc # "returned"

C16_Witness ==
    /\ search_error = "similarity"
    /\ search_pc = "raised"
    /\ Len(candidates) = 2
    /\ ~Offending(1)
    /\ Offending(2)
    /\ candidates[2].embedding = NoEmbedding

----------------------------------------------------------------------------
(* Properties of _cosine_similarity, continued *)

AllZero(v) == \A i \in DOMAIN v : v[i] = 0

\* the resolution of the number model: norms are rounded to 1/NormScale and
\* the quotient is cut to 1/One
Tolerance == One \div NormScale + 1

\* C17: a call with vectors of different lengths ends with an error and
\* returns no number, also when one of the vectors is a zero vector.
C17_LengthMismatchRaises ==
    /\ cos_pc = "returned" => Len(vec1) = Len(vec2)
    /\ (cos_pc # "call" /\ Len(vec1) # Len(vec2)) => cos_pc = "raised"

C17_Witness ==
    /\ cos_pc = "raised"
    /\ vec1 = VecZero
    /\ vec2 = VecShort

\* C18: with two vectors of equal length of which at least one has zero norm
\* the call returns 0.0; it does not raise and the value is a number.
C18_ZeroNormGivesZero ==
    (cos_pc # "call" /\ Len(vec1) = Len(vec2) /\ (AllZero(vec1) \/ AllZero(vec2)))
        => (cos_pc = "returned" /\ cos_out = 0)

C18_Witness ==
    /\ cos_pc = "returned"
    /\ vec1 = VecP
    /\ vec2 = VecZero
    /\ cos_out = 0

\* C19: the value returned for (a, b) is the value of the function at (b, a).
C19_Symmetric ==
    cos_pc = "returned" => cos_out = _cosine_similarity(vec2, vec1)

C19_Witness ==
    /\ cos_pc = "returned"
    /\ vec1 = <<3, 4>>
    /\ vec2 = VecB
    /\ cos_out > 0
    /\ cos_out < One

----------------------------------------------------------------------------
(* Properties of semantic_search, continued *)

\* the kinds of the external calls of invocation n, in the order they were made
CallsOf(n) ==
    LET mine == SelectSeq(call_log, LAMBDA e : e[1] = n)
    IN  [i \in 1 .. Len(mine) |-> mine[i][2]]

\* invocation n has gone past its embedding call
PastEmbedding(n) == n < invocation \/ search_pc # "call"

\* C21: every invocation of semantic_search makes exactly one call of the
\* embedding provider and then at most one query of the index, a repeated
\* invocation with the same query included: nothing of an earlier invocation
\* is reused.
C21_OneEmbeddingThenOneQuery ==
    \A n \in 1 .. invocation :
        /\ CallsOf(n) \in {<<>>, <<"embed">>, <<"embed", "index">>}
        /\ PastEmbedding(n) => CallsOf(n) # <<>>
        /\ (n = invocation /\ search_pc \in {"rerank", "returned"})
              => CallsOf(n) = <<"embed", "index">>

C21_Witness ==
    /\ invocation = 2
    /\ search_pc = "returned"
    /\ search_result # <<>>
    /\ call_log = <<<<1, "embed">>, <<1, "index">>, <<2, "embed">>, <<2, "index">>>>

\* what a call with arguments a returns when it runs alone against the index
SoloOutcome(a) ==
    SearchOutcome(EmbeddingOf(a.query), ResolveTopK(a.arg_top_k), a.filters,
                  a.use_mmr, a.lambda_param, vector_index[EmbeddingOf(a.query)])

\* C22: semantic_search writes no field of the retriever, and in every
\* interleaving of two concurrent calls each call returns what it returns
\* when run alone against the same index contents.
C22_ConcurrentCallsIndependent ==
    /\ retriever = RetrieverFields
    /\ \A i \in DOMAIN frames :
          /\ frames[i].pc = "returned"
                => SoloOutcome(frames[i].args) = <<"returned", frames[i].results>>
          /\ frames[i].error = "similarity"
                => SoloOutcome(frames[i].args) = <<"raised">>

C22_Witness ==
    /\ conc_log = <<<<1, "embed">>, <<2, "embed">>, <<1, "fetch">>, <<2, "fetch">>>>
    /\ frames[1].pc = "returned"
    /\ frames[2].pc = "returned"
    /\ frames[1].args.query # frames[2].args.query
    /\ frames[1].results # <<>>
    /\ frames[2].results # <<>>
    /\ frames[1].results # frames[2].results

----------------------------------------------------------------------------
(* Properties of _mmr_rerank, continued *)

\* C23: no step of _mmr_rerank changes its inputs: the caller's candidate
\* list keeps its documents, their order and every field of each document,
\* and the query vector is left as it was.
C23_InputsUnchanged ==
    [][(pc \in {"call", "loop"})
          => (candidates' = candidates /\ query_embedding' = query_embedding)]_vars

C23_Witness ==
    /\ pc = "returned"
    /\ Len(candidates) = 4
    /\ Len(result) = 3
    /\ result[1] # 1
    /\ result[2] > result[3]

----------------------------------------------------------------------------
(* Properties of semantic_search, continued *)

\* C24: when the index query raises, semantic_search ends with that error and
\* returns no list; a call that returns (the empty list of an index without
\* match included) has seen no error.
C24_IndexErrorPropagates ==
    /\ search_error = "index"
          => (search_pc = "raised" /\ search_result = <<>> /\ pc = "idle"
              /\ index_calls = 1)
    /\ search_pc = "returned" => search_error = "none"

C24_Witness ==
    /\ search_error = "index"
    /\ search_pc = "raised"
    /\ index_docs # <<>>
    /\ index_calls = 1

----------------------------------------------------------------------------
(* Properties of _mmr_rerank, continued *)

\* C25: the outcome of _mmr_rerank is the value of a function of the query
\* vector, the candidate sequence, top_k and lambda_param, so two invocations
\* with equal arguments return the same candidates in the same order.
C25_Deterministic ==
    /\ pc = "returned"
          => RerankOf(query_embedding, candidates, top_k, lambda_param)
                = <<"returned", result>>
    /\ pc = "raised"
          => RerankOf(query_embedding, candidates, top_k, lambda_param)
                = <<"raised">>

C25_Witness ==
    /\ pc = "returned"
    /\ Len(candidates) = 3
    /\ candidates[2] = candidates[3]
    /\ candidates[1] # candidates[2]
    /\ result = <<2, 1, 3>>

\* C26: at lambda_param = 0 every pick after the first is a remaining
\* candidate whose largest similarity to the selected ones is the smallest
\* among the remaining candidates, whatever its similarity to the query.
C26_LambdaZeroPicksMostDiverse ==
    [][(Picked /\ lambda_param = 0 /\ selected # <<>>) =>
        LET d == selected'[Len(selected')]
        IN  /\ d \in Range(remaining)
            /\ \A r \in Range(remaining) :
                  PenaltyOver(d, Range(selected)) <= PenaltyOver(r, Range(selected))]_vars

C26_Witness ==
    /\ lambda_param = 0
    /\ Len(selected) = 3
    /\ remaining # <<>>
    /\ Relevance(selected[2]) < Relevance(selected[3])
    /\ Relevance(selected[3]) < Relevance(remaining[1])

----------------------------------------------------------------------------
(* Properties of semantic_search, continued *)

Matches(d) == filters = <<>> \/ d.metadata.team = filters[1]

\* the hits $vectorSearch keeps: the first index_limit documents of the index
Kept == {j \in 1 .. Len(index_docs) : j <= index_limit}

\* C27: the filter is applied after $vectorSearch has cut its output to
\* fetch_limit documents: every returned document satisfies the filter and
\* the pool is made of the matching documents among the first fetch_limit
\* hits, so it has at most fetch_limit documents; it can have fewer than
\* top_k documents although the collection holds top_k matching ones.
C27_FilterAfterLimit ==
    /\ \A i \in 1 .. Len(search_result) : Matches(search_result[i])
    /\ Fetched =>
          /\ Len(candidates) <= index_limit
          /\ \A i \in 1 .. Len(candidates) :
                \E j \in Kept : /\ candidates[i]._id = StrOf(index_docs[j]._id)
                                /\ Matches(index_docs[j])
          /\ \A j \in Kept :
                Matches(index_docs[j])
                   => \E i \in 1 .. Len(candidates) :
                         candidates[i]._id = StrOf(index_docs[j]._id)

C27_Witness ==
    /\ Fetched
    /\ use_mmr
    /\ filters # <<>>
    /\ search_pc = "returned"
    /\ Len(result) = 1
    /\ Len(candidates) < top_k
    /\ Cardinality({j \in 1 .. Len(index_docs) : Matches(index_docs[j])}) >= top_k
    /\ \A i \in 1 .. Len(search_result) : Matches(search_result[i])

----------------------------------------------------------------------------
(* Properties of process_directory *)

\* C28: process_directory calls process_document for every PDF found, a
\* raising file does not end the loop; the count returned is the number of
\* files whose process_document returned, and the chunks a failing file had
\* inserted before it raised stay in the collection.
C28_EveryFileAttempted ==
    ingest_pc = "returned" =>
        /\ attempted = [i \in 1 .. Len(pdf_files) |-> i]
        /\ processed_count
              = Cardinality({i \in 1 .. Len(pdf_files) : Completes(pdf_files[i])})
        /\ \A i \in 1 .. Len(pdf_files) : \A c \in 1 .. MaxChunks + 1 :
              (\E k \in 1 .. Len(stored) : stored[k] = <<i, c>>)
                 <=> c <= pdf_files[i].inserted

C28_Witness ==
    /\ ingest_pc = "returned"
    /\ Len(pdf_files) = 2
    /\ pdf_files[1] = [chunks |-> 2, raises |-> TRUE, inserted |-> 1]
    /\ Completes(pdf_files[2])
    /\ pdf_files[2].chunks = 1
    /\ attempted = <<1, 2>>
    /\ processed_count = 1
    /\ stored = <<<<1, 1>>, <<2, 1>>>>


Called(name) == \E i \in 1 .. Len(gen_calls) : gen_calls[i] = name

HasKeyword(k) == In(k, query_normalized(user_query))

CountsIntegrations == HasKeyword("cuantos") /\ HasKeyword("integraciones")

CountsGeneral == ~CountsIntegrations /\ (HasKeyword("cuantos") \/ HasKeyword("contar"))

MostTickets == ~CountsIntegrations /\ ~CountsGeneral /\ HasKeyword("mas tickets")

TicketPattern ==
    /\ ~CountsIntegrations /\ ~CountsGeneral /\ ~MostTickets
    /\ HasKeyword("ticket")
    /\ \E p \in {"AP-", "CORECM-", "PFU-", "TST", "DEM-"} : In(p, Upper(user_query))

\* C29: query_with_analytics takes the first branch that matches, in the
\* order Integrations count, general counts, provider with most tickets,
\* ticket lookup, semantic search.  A query answered by a counting branch
\* makes exactly that branch's count calls and returns; no embedding is
\* requested, the index is not queried, semantic_search and the generation
\* call are not made.  A query with the ticket pattern but no extractable
\* ticket id, like a query matching no branch, goes to query(): its first
\* call is semantic_search.
C29_RoutesByFirstBranch ==
    (entry = "analytics" /\ gen_pc # "analytics") =>
        /\ CountsIntegrations => gen_calls = <<"count_by_team">>
        /\ CountsGeneral => gen_calls = <<"count_by_team", "count_by_provider">>
        /\ MostTickets => gen_calls = <<"count_by_provider">>
        /\ (CountsIntegrations \/ CountsGeneral \/ MostTickets) =>
              /\ gen_pc = "returned"
              /\ response.query_type = "analytical"
              /\ embed_calls = 0 /\ index_calls = 0 /\ call_log = <<>>
              /\ search_pc = "idle"
              /\ ~Called("semantic_search") /\ ~Called("generate_response")
        /\ (TicketPattern /\ _extract_ticket_id(user_query) # <<>>) =>
              /\ gen_calls[1] = "get_ticket_with_provider_docs"
              /\ ~Called("semantic_search")
        /\ (\/ TicketPattern /\ _extract_ticket_id(user_query) = <<>>
            \/ ~(CountsIntegrations \/ CountsGeneral \/ MostTickets \/ TicketPattern)) =>
              /\ gen_pc \in {"query", "searching", "returned", "raised"}
              /\ gen_pc # "query" => gen_calls[1] = "semantic_search"
              /\ ~Called("count_by_team") /\ ~Called("count_by_provider")
              /\ ~Called("get_ticket_with_provider_docs")

\* a query with the word ticket and the prefix TST but no ticket id was
\* answered by the semantic pipeline
C29_Witness ==
    /\ entry = "analytics"
    /\ user_query = "ticket TST sin numero"
    /\ gen_pc = "returned"
    /\ gen_calls = <<"semantic_search", "generate_response">>
    /\ embed_calls = 1

\* C30: query() makes the generation call only when semantic_search
\* returned at least one document.  On an empty retrieval it returns the
\* fixed answer with sources [] and retrieved_docs 0 and generate_response
\* is not called; otherwise generate_response is called once and the
\* returned retrieved_docs is the number of documents retrieved.
C30_GeneratesOnlyWithDocuments ==
    (gen_pc \in {"returned", "raised"} /\ Called("semantic_search")) =>
        /\ Called("generate_response") =>
              search_pc = "returned" /\ Len(search_result) >= 1
        /\ gen_pc = "returned" =>
              IF search_result = <<>>
              THEN /\ response =
                        [answer |-> "I couldn't find relevant documents to answer your question.",
                         sources |-> <<>>, retrieved_docs |-> 0]
                   /\ gen_calls = <<"semantic_search">>
              ELSE /\ response.retrieved_docs = Len(search_result)
                   /\ gen_calls = <<"semantic_search", "generate_response">>

\* the filter left no document of a non-empty collection and query()
\* returned the fixed answer
C30_Witness ==
    /\ entry = "query"
    /\ gen_pc = "returned"
    /\ index_docs # <<>>
    /\ search_pc = "returned"
    /\ search_result = <<>>
    /\ response.retrieved_docs = 0
    /\ gen_calls = <<"semantic_search">>

====
